---- MODULE Spec2Model ----
(***************************************************************************)
(* A model of the smallchat server (src/main.go): the accept loop, the     *)
(* observers list guarded by chat.mu, and one listen goroutine per client. *)
(*                                                                         *)
(* Input lines are sequences of one-character strings, so that the string  *)
(* functions of handleCommand (TrimSpace, HasPrefix, SplitN, ToLower) are  *)
(* computed on them; the texts written to connections are strings.         *)
(***************************************************************************)
EXTENDS Integers, Sequences, FiniteSets, TLC

\* ------------------------------------------------------------------ bounds
\* Connections the listener accepts in one run.
MaxConns == 3
\* Lines read from all clients together in one run.
MaxLines == 2
\* main.go:60 sets MaxClients = 1000; the model runs the same code with a
\* small limit so that the limit is reached.
MaxClients == 2
\* The same two bounds for the specification of the chat among admitted clients.
ChatConns == 2
ChatLines == 2
\* And for the specification of the commands.
CmdConns == 2
CmdLines == 2
\* And for the specification of one client sending any of the lines.
LineConns == 1
LineLines == 2

\* One connection more, for the specification of a connection that comes
\* after one was turned away and an admitted client has left.
FullConns == MaxConns + 1

Sessions == 1..FullConns

\* --------------------------------------------------------------- constants
welcomeMessage == "Welcome to the chat server! Type '/nick NAME' to set your nickname.\n"
unknownCmdMsg == "Unsupported command\n"
usageMsg == "Usage: /nick <nickname>\n"
emptyNickMsg == "Nickname cannot be empty\n"

\* ------------------------------------------------------- string functions
RECURSIVE Str(_)
\* []byte / string conversion: the string spelled by a sequence of characters.
Str(s) == IF s = <<>> THEN "" ELSE s[1] \o Str(Tail(s))

UpperChars == <<"A", "B", "C", "D", "E", "F", "G", "H", "I", "J", "K", "L", "M",
                "N", "O", "P", "Q", "R", "S", "T", "U", "V", "W", "X", "Y", "Z">>
LowerChars == <<"a", "b", "c", "d", "e", "f", "g", "h", "i", "j", "k", "l", "m",
                "n", "o", "p", "q", "r", "s", "t", "u", "v", "w", "x", "y", "z">>

\* unicode.IsSpace on the characters the model uses.
IsSpace(c) == c \in {" ", "\t", "\n", "\r", "\f"}

\* strings.ReplaceAll(msg, "\r", "")
StripCR(s) == SelectSeq(s, LAMBDA c : c # "\r")

RECURSIVE TrimLeft(_)
TrimLeft(s) == IF s # <<>> /\ IsSpace(Head(s)) THEN TrimLeft(Tail(s)) ELSE s

RECURSIVE TrimRight(_)
TrimRight(s) ==
    IF s # <<>> /\ IsSpace(s[Len(s)]) THEN TrimRight(SubSeq(s, 1, Len(s) - 1)) ELSE s

\* strings.TrimSpace
TrimSpace(s) == TrimRight(TrimLeft(s))

\* strings.HasPrefix
HasPrefix(s, p) == Len(s) >= Len(p) /\ SubSeq(s, 1, Len(p)) = p

RECURSIVE SplitAll(_)
\* strings.Split(s, " "): cut at every space.
SplitAll(s) ==
    IF \E i \in 1..Len(s) : s[i] = " "
    THEN LET i == CHOOSE j \in 1..Len(s) :
                      s[j] = " " /\ \A k \in 1..(j - 1) : s[k] # " "
         IN  <<SubSeq(s, 1, i - 1)>> \o SplitAll(SubSeq(s, i + 1, Len(s)))
    ELSE <<s>>

\* strings.SplitN(s, " ", 2): at most two parts, cut at the first space.
SplitN2(s) ==
    IF \E i \in 1..Len(s) : s[i] = " "
    THEN LET i == CHOOSE j \in 1..Len(s) :
                      s[j] = " " /\ \A k \in 1..(j - 1) : s[k] # " "
         IN  <<SubSeq(s, 1, i - 1), SubSeq(s, i + 1, Len(s))>>
    ELSE <<s>>

LowerChar(c) ==
    IF \E i \in 1..Len(UpperChars) : UpperChars[i] = c
    THEN LowerChars[CHOOSE i \in 1..Len(UpperChars) : UpperChars[i] = c]
    ELSE c

\* strings.ToLower
ToLower(s) == [i \in 1..Len(s) |-> LowerChar(s[i])]

Digits == <<"0", "1", "2", "3", "4", "5", "6", "7", "8", "9">>

RECURSIVE Itoa(_)
\* The %d verb of fmt.Sprintf, for n >= 0.
Itoa(n) == IF n < 10 THEN Digits[n + 1] ELSE Itoa(n \div 10) \o Digits[(n % 10) + 1]

\* DisplayMsg with the test of the nickname inverted.
DisplayMsgInverted(nick, id, msg) ==
    IF nick # ""
    THEN "user:" \o Itoa(id) \o "> " \o Str(msg) \o "\n"
    ELSE nick \o "> " \o Str(msg) \o "\n"

\* fmt.Sprintf("%s> %s\n", nick, msg), replaced by
\* fmt.Sprintf("user:%d> %s\n", id, msg) when nick is empty.
DisplayMsg(nick, id, msg) ==
    IF nick = ""
    THEN "user:" \o Itoa(id) \o "> " \o Str(msg) \o "\n"
    ELSE nick \o "> " \o Str(msg) \o "\n"

\* fmt.Sprintf("User %d is now known as %s\n", id, nick)
NickNotice(id, nick) == "User " \o Itoa(id) \o " is now known as " \o nick \o "\n"

\* What handling one line comes to: nothing, a notice written to the sender
\* alone, or a broadcast; nick is the sender's nickname afterwards.
Ignore(nick) == [kind |-> "ignore", text |-> "", nick |-> nick]
Direct(nick, text) == [kind |-> "direct", text |-> text, nick |-> nick]
Broadcast(nick, text) == [kind |-> "broadcast", text |-> text, nick |-> nick]

\* handleNickCommand refusing a client that has a nickname already.
handleNickCommandOnce(nick, id, parts) ==
    IF Len(parts) # 2
    THEN Direct(nick, usageMsg)
    ELSE LET newNick == Str(TrimSpace(parts[2]))
         IN  IF newNick = ""
             THEN Direct(nick, emptyNickMsg)
             ELSE IF nick # ""
             THEN Ignore(nick)
             ELSE Broadcast(newNick, NickNotice(id, newNick))

\* handleNickCommand sending the usage text with chat.broadcast.
handleNickCommandBroadcastUsage(nick, id, parts) ==
    IF Len(parts) # 2
    THEN Broadcast(nick, usageMsg)
    ELSE LET newNick == Str(TrimSpace(parts[2]))
         IN  IF newNick = ""
             THEN Direct(nick, emptyNickMsg)
             ELSE Broadcast(newNick, NickNotice(id, newNick))

handleNickCommand(nick, id, parts) ==
    IF Len(parts) # 2
    THEN Direct(nick, usageMsg)
    ELSE LET newNick == Str(TrimSpace(parts[2]))
         IN  IF newNick = ""
             THEN Direct(nick, emptyNickMsg)
             ELSE Broadcast(newNick, NickNotice(id, newNick))

handleCommand(nick, id, raw) ==
    LET msg == TrimSpace(raw)
    IN  IF msg = <<>>
        THEN Ignore(nick)
        ELSE IF HasPrefix(msg, <<"/">>)
        THEN LET parts == SplitN2(msg)
                 command == ToLower(parts[1])
             IN  IF command = <<"/", "n", "i", "c", "k">>
                 THEN handleNickCommand(nick, id, parts)
                 ELSE Direct(nick, unknownCmdMsg)
        ELSE Broadcast(nick, DisplayMsg(nick, id, msg))

\* ------------------------------------------------------------------ inputs
\* The lines clients send, each as ReadString('\n') returns it.
LineHi == <<"h", "i", "\n">>
LinePadded == <<" ", "h", "i", " ", "\r", "\n">>
LineEmpty == <<"\r", "\n">>
LineNickX == <<"/", "n", "i", "c", "k", " ", "X", "\n">>
LineNickUpperY == <<"/", "N", "i", "c", "K", " ", " ", "Y", " ", "\n">>
LineNickNoArg == <<"/", "n", "i", "c", "k", " ", "\r", "\n">>
LineUnknown == <<"/", "f", "r", "o", "b", " ", "x", "\n">>
LineNickTwo == <<"/", "n", "i", "c", "k", " ", "a", " ", "b", "\n">>
LineNickBare == <<"/", "n", "i", "c", "k", "\n">>

AllLines == {LineHi, LinePadded, LineEmpty, LineNickX, LineNickUpperY,
             LineNickNoArg, LineUnknown, LineNickTwo}
Lines == {LinePadded, LineNickX, LineNickNoArg, LineUnknown}
ChatInput == {LinePadded, LineNickX}
CmdInput == {LineNickX, LineNickNoArg, LineUnknown}

\* ------------------------------------------------------------------- state
\* Bounds and lines of the nicknames.
NickConns == 2
NickLines == 2
NickInput == {LineNickX, LineNickUpperY}

\* Bounds and lines of the arguments of /nick.
ArgConns == 2
ArgLines == 2
ArgInput == {LineNickTwo, LineNickNoArg, LineNickBare}

\* Bounds and lines of the comings and goings.
JoinConns == 3
JoinLines == 1
JoinInput == {LineHi}

VARIABLES
    observers,  \* chat.observers: the clients in the list, in order
    mu,         \* chat.mu: 0 when free, else the client whose broadcast holds it
    acc,        \* the accept loop: [pc, c], c the client being admitted
    nconn,      \* connections accepted so far
    id,         \* Client.id
    nick,       \* Client.nick
    conn,       \* Client.conn as the server holds it: "none", "open", "closed"
    peer,       \* the client's end of the connection: "open" or "closed"
    pc,         \* where the client's listen goroutine is
    line,       \* per client: the line ReadString returned last
    out,        \* the message of the broadcast in progress
    idx,        \* the position of broadcast's range loop
    log,        \* per client: the writes made to its connection, in order,
                \* kept until listen returns
    nread,      \* per client: lines read from it
    nlines,     \* lines read from all clients
    snap,       \* per client: the observers when its broadcast took the lock
    fullAtAdd   \* per client: len(observers) >= MaxClients when addObserver was entered

vars == <<observers, mu, acc, nconn, id, nick, conn, peer, pc, line, out, idx,
          log, nread, nlines, snap, fullAtAdd>>

accVars == <<acc, nconn>>
clientVars == <<id, nick>>
netVars == <<conn, peer>>
readVars == <<line, nread, nlines>>
bcastVars == <<out, idx, snap>>

Init ==
    /\ observers = <<>>
    /\ mu = 0
    /\ acc = [pc |-> "accept", c |-> 0]
    /\ nconn = 0
    /\ id = [c \in Sessions |-> 0]
    /\ nick = [c \in Sessions |-> ""]
    /\ conn = [c \in Sessions |-> "none"]
    /\ peer = [c \in Sessions |-> "open"]
    /\ pc = [c \in Sessions |-> "none"]
    /\ line = [c \in Sessions |-> <<>>]
    /\ out = [c \in Sessions |-> ""]
    /\ idx = [c \in Sessions |-> 0]
    /\ log = [c \in Sessions |-> <<>>]
    /\ nread = [c \in Sessions |-> 0]
    /\ nlines = 0
    /\ snap = [c \in Sessions |-> {}]
    /\ fullAtAdd = [c \in Sessions |-> FALSE]

\* ----------------------------------------------------------------- helpers
Members(obs) == {obs[i] : i \in 1..Len(obs)}

\* conn.Write: fails on a connection the server has closed, succeeds on an
\* open one; when the client's end is gone the kernel may still take the bytes.
\* No write deadline is ever set on the connection: to a client that has
\* stopped reading, once the buffers are full, the call does not return.
WriteResults(c) ==
    IF conn[c] = "closed" THEN {FALSE}
    ELSE IF peer[c] = "stalled" THEN {}
    ELSE IF peer[c] = "closed" THEN {TRUE, FALSE}
    ELSE {TRUE}

\* One write to a connection: how it was made (via), the text, the client
\* and line it came from, and whether conn.Write returned no error.
Entry(via, text, from, n, ok) ==
    [via |-> via, text |-> text, from |-> from, n |-> n, ok |-> ok]

\* Notify run in a goroutine of its own: the write may overtake the one before.
NotifyOvertaking(lg, c, via, text, from, n, ok) ==
    [lg EXCEPT ![c] =
        IF @ = <<>>
        THEN <<Entry(via, text, from, n, ok)>>
        ELSE SubSeq(@, 1, Len(@) - 1) \o <<Entry(via, text, from, n, ok), @[Len(@)]>>]

\* Client.Notify: one conn.Write; an error is logged and dropped.
Notify(lg, c, via, text, from, n, ok) ==
    [lg EXCEPT ![c] = Append(@, Entry(via, text, from, n, ok))]

\* removeObserver moving the last client into the freed place.
RemoveSwap(obs, c) ==
    IF c \in Members(obs)
    THEN LET i == CHOOSE j \in 1..Len(obs) : obs[j] = c
         IN  IF i = Len(obs)
             THEN SubSeq(obs, 1, Len(obs) - 1)
             ELSE [SubSeq(obs, 1, Len(obs) - 1) EXCEPT ![i] = obs[Len(obs)]]
    ELSE obs

\* The loop of removeObserver: drop the first element equal to c.
RemoveFirst(obs, c) ==
    IF c \in Members(obs)
    THEN LET i == CHOOSE j \in 1..Len(obs) :
                      obs[j] = c /\ \A k \in 1..(j - 1) : obs[k] # c
         IN  SubSeq(obs, 1, i - 1) \o SubSeq(obs, i + 1, Len(obs))
    ELSE obs

\* ------------------------------------------------------------- accept loop
\* serversock.Accept, generateClientID (under chat.mu) and the new Client.
GenerateClientID(maxConns) ==
    /\ acc.pc = "accept"
    /\ nconn < maxConns
    /\ mu = 0
    /\ nconn' = nconn + 1
    /\ acc' = [pc |-> "add", c |-> nconn + 1]
    /\ id' = [id EXCEPT ![nconn + 1] = Len(observers) + 1]
    /\ conn' = [conn EXCEPT ![nconn + 1] = "open"]
    /\ UNCHANGED <<observers, mu, nick, peer, pc, readVars, bcastVars, log, fullAtAdd>>

\* chat.addObserver(client), under chat.mu.
AddObserver ==
    /\ acc.pc = "add"
    /\ mu = 0
    /\ observers' = Append(observers, acc.c)
    /\ fullAtAdd' = [fullAtAdd EXCEPT ![acc.c] = Len(observers) >= MaxClients]
    /\ acc' = [acc EXCEPT !.pc = "check"]
    /\ UNCHANGED <<mu, nconn, clientVars, netVars, pc, readVars, bcastVars, log>>

\* if len(chat.observers) > MaxClients { conn.Close(); continue }
\* go client.listen().  The length is read without chat.mu.
CheckMaxClients ==
    /\ acc.pc = "check"
    /\ IF Len(observers) > MaxClients
       THEN /\ conn' = [conn EXCEPT ![acc.c] = "closed"]
            /\ pc' = pc
       ELSE /\ pc' = [pc EXCEPT ![acc.c] = "welcome"]
            /\ conn' = conn
    /\ acc' = [pc |-> "accept", c |-> 0]
    /\ UNCHANGED <<observers, mu, nconn, clientVars, peer, readVars, bcastVars, log,
                   fullAtAdd>>

\* ------------------------------------------------------------------ client
\* The client closes or resets its end of the connection.  The model takes
\* the close at a moment when listen waits in ReadString (or, in SendWelcome,
\* before the welcome message is written).
PeerClose(c) ==
    /\ conn[c] = "open"
    /\ peer[c] = "open"
    /\ pc[c] = "read"
    /\ peer' = [peer EXCEPT ![c] = "closed"]
    /\ UNCHANGED <<observers, mu, accVars, clientVars, conn, pc, readVars, bcastVars,
                   log, fullAtAdd>>

\* The client stops reading from its connection, which it keeps open, and
\* sends nothing more: the buffers towards it are full from now on.
PeerStall(c) ==
    /\ conn[c] = "open"
    /\ peer[c] = "open"
    /\ pc[c] \in {"read", "broadcast"}
    /\ peer' = [peer EXCEPT ![c] = "stalled"]
    /\ UNCHANGED <<observers, mu, accVars, clientVars, conn, pc, readVars, bcastVars,
                   log, fullAtAdd>>

\* listen: client.conn.Write([]byte(welcomeMessage)).  The write fails when
\* the client has gone already; the error is logged and listen goes on.
SendWelcome(c) ==
    /\ pc[c] = "welcome"
    /\ \E ok \in BOOLEAN :
           /\ log' = Notify(log, c, "welcome", welcomeMessage, 0, 0, ok)
           /\ peer' = IF ok THEN peer ELSE [peer EXCEPT ![c] = "closed"]
    /\ pc' = [pc EXCEPT ![c] = "read"]
    /\ UNCHANGED <<observers, mu, accVars, clientVars, conn, readVars, bcastVars,
                   fullAtAdd>>

\* listen: client.reader.ReadString('\n') returns a line,
\* msg = strings.ReplaceAll(msg, "\r", ""), client.handleCommand(msg) up to its
\* call of chat.broadcast.  line keeps the line for the broadcast that follows.
ReadLine(c, maxLines, lines) ==
    /\ pc[c] = "read"
    /\ peer[c] = "open"
    /\ nlines < maxLines
    /\ \E l \in lines :
           LET r == handleCommand(nick[c], id[c], StripCR(l))
           IN  /\ line' = [line EXCEPT ![c] = l]
               /\ nick' = [nick EXCEPT ![c] = r.nick]
               /\ CASE r.kind = "ignore" ->
                         UNCHANGED <<log, out, pc>>
                    [] r.kind = "direct" ->
                         /\ \E ok \in WriteResults(c) :
                                log' = Notify(log, c, "direct", r.text, c, nread[c] + 1, ok)
                         /\ UNCHANGED <<out, pc>>
                    [] r.kind = "broadcast" ->
                         /\ out' = [out EXCEPT ![c] = r.text]
                         /\ pc' = [pc EXCEPT ![c] = "broadcast"]
                         /\ UNCHANGED log
    /\ nread' = [nread EXCEPT ![c] = @ + 1]
    /\ nlines' = nlines + 1
    /\ UNCHANGED <<observers, mu, accVars, id, netVars, idx, snap, fullAtAdd>>

\* listen: ReadString returns io.EOF or another error and the loop breaks;
\* client.chat.removeObserver(client), under chat.mu; client.conn.Close().
\* The goroutine returns: what was recorded of the connection is dropped.
ListenEnd(c) ==
    /\ pc[c] = "read"
    /\ peer[c] = "closed"
    /\ mu = 0
    /\ observers' = RemoveFirst(observers, c)
    /\ conn' = [conn EXCEPT ![c] = "closed"]
    /\ pc' = [pc EXCEPT ![c] = "done"]
    /\ log' = [log EXCEPT ![c] = <<>>]
    /\ line' = [line EXCEPT ![c] = <<>>]
    /\ nread' = [nread EXCEPT ![c] = 0]
    /\ fullAtAdd' = [fullAtAdd EXCEPT ![c] = FALSE]
    /\ UNCHANGED <<mu, accVars, clientVars, peer, nlines, bcastVars>>

\* broadcast entering its loop without chat.mu.Lock().
BroadcastNoLock(c) ==
    /\ pc[c] = "broadcast"
    /\ mu' = c
    /\ idx' = [idx EXCEPT ![c] = 1]
    /\ snap' = [snap EXCEPT ![c] = Members(observers)]
    /\ pc' = [pc EXCEPT ![c] = "notify"]
    /\ UNCHANGED <<observers, accVars, clientVars, netVars, readVars, out, log, fullAtAdd>>

\* broadcast: chat.mu.Lock().
BroadcastLock(c) ==
    /\ pc[c] = "broadcast"
    /\ mu = 0
    /\ mu' = c
    /\ idx' = [idx EXCEPT ![c] = 1]
    /\ snap' = [snap EXCEPT ![c] = Members(observers)]
    /\ pc' = [pc EXCEPT ![c] = "notify"]
    /\ UNCHANGED <<observers, accVars, clientVars, netVars, readVars, out, log, fullAtAdd>>

\* broadcast skipping the sender's own Client.
BroadcastNotifyOthers(c) ==
    /\ pc[c] = "notify"
    /\ idx[c] <= Len(observers)
    /\ IF observers[idx[c]] = c
       THEN log' = log
       ELSE \E ok \in WriteResults(observers[idx[c]]) :
                log' = Notify(log, observers[idx[c]], "broadcast", out[c], c, nread[c], ok)
    /\ idx' = [idx EXCEPT ![c] = @ + 1]
    /\ UNCHANGED <<observers, mu, accVars, clientVars, netVars, pc, readVars, out, snap,
                   fullAtAdd>>

\* broadcast returning at the first Notify whose write fails.
BroadcastNotifyAbort(c) ==
    /\ pc[c] = "notify"
    /\ idx[c] <= Len(observers)
    /\ \E ok \in WriteResults(observers[idx[c]]) :
           /\ log' = Notify(log, observers[idx[c]], "broadcast", out[c], c, nread[c], ok)
           /\ idx' = [idx EXCEPT ![c] = IF ok THEN @ + 1 ELSE Len(observers) + 1]
    /\ UNCHANGED <<observers, mu, accVars, clientVars, netVars, pc, readVars, out, snap,
                   fullAtAdd>>

\* broadcast: one turn of the range loop, observer.Notify(message, senderID).
BroadcastNotify(c) ==
    /\ pc[c] = "notify"
    /\ idx[c] <= Len(observers)
    /\ \E ok \in WriteResults(observers[idx[c]]) :
           log' = Notify(log, observers[idx[c]], "broadcast", out[c], c, nread[c], ok)
    /\ idx' = [idx EXCEPT ![c] = @ + 1]
    /\ UNCHANGED <<observers, mu, accVars, clientVars, netVars, pc, readVars, out, snap,
                   fullAtAdd>>

\* broadcast: the loop is over, the deferred chat.mu.Unlock() runs.
BroadcastUnlock(c) ==
    /\ pc[c] = "notify"
    /\ idx[c] > Len(observers)
    /\ mu' = 0
    /\ pc' = [pc EXCEPT ![c] = "read"]
    /\ out' = [out EXCEPT ![c] = ""]
    /\ idx' = [idx EXCEPT ![c] = 0]
    /\ snap' = [snap EXCEPT ![c] = {}]
    /\ UNCHANGED <<observers, accVars, clientVars, netVars, readVars, log, fullAtAdd>>

\* The accept loop.
Acceptor(maxConns) ==
    \/ GenerateClientID(maxConns)
    \/ AddObserver
    \/ CheckMaxClients

\* The listen goroutine of client c and the client at the other end.
Listener(c, maxLines, lines) ==
    \/ PeerClose(c)
    \/ SendWelcome(c)
    \/ ReadLine(c, maxLines, lines)
    \/ ListenEnd(c)
    \/ BroadcastLock(c)
    \/ BroadcastNotify(c)
    \/ BroadcastUnlock(c)

Next ==
    \/ Acceptor(MaxConns)
    \/ \E c \in Sessions : Listener(c, MaxLines, Lines)

Spec == Init /\ [][Next]_vars

NextChat ==
    \/ Acceptor(ChatConns)
    \/ \E c \in Sessions : Listener(c, ChatLines, ChatInput)

\* The same program with the bounds of the chat: every connection is admitted,
\* and the clients send messages and set nicknames.
SpecChat == Init /\ [][NextChat]_vars

NextCmd ==
    \/ Acceptor(CmdConns)
    \/ \E c \in Sessions : Listener(c, CmdLines, CmdInput)

\* The same program with the bounds of the commands: every connection is
\* admitted, and the clients send commands, well-formed and not.
SpecCmd == Init /\ [][NextCmd]_vars

NextLines ==
    \/ Acceptor(LineConns)
    \/ \E c \in Sessions : Listener(c, LineLines, AllLines)

\* The same program with a single client that sends any of the lines.
SpecLines == Init /\ [][NextLines]_vars

NextJoin ==
    \/ Acceptor(JoinConns)
    \/ \E c \in Sessions : Listener(c, JoinLines, JoinInput)

\* The same program with the bounds of the comings and goings: more
\* connections than the server admits, and a single message.
SpecJoin == Init /\ [][NextJoin]_vars

NextNick ==
    \/ Acceptor(NickConns)
    \/ \E c \in Sessions : Listener(c, NickLines, NickInput)

\* The same program with the bounds of the nicknames: every connection is
\* admitted, and the clients set and change their nicknames.
SpecNick == Init /\ [][NextNick]_vars

NextArgs ==
    \/ Acceptor(ArgConns)
    \/ \E c \in Sessions : Listener(c, ArgLines, ArgInput)

\* The same program with the bounds of the arguments of /nick: every
\* connection is admitted, and the clients send /nick with two words, with
\* an empty argument and with none.
SpecArgs == Init /\ [][NextArgs]_vars

NextFull ==
    \/ Acceptor(FullConns)
    \/ \E c \in Sessions : Listener(c, JoinLines, JoinInput)

\* The same program with one connection more than Spec and a single message.
SpecFull == Init /\ [][NextFull]_vars

NextStall ==
    \/ NextChat
    \/ \E c \in Sessions : PeerStall(c)

\* What the Go scheduler and sync.Mutex give: a goroutine that can run does
\* run, and a goroutine waiting for chat.mu gets it if the mutex is released
\* again and again (the mutex hands over to a waiter that starves).  Nothing
\* is assumed of the clients: they connect, send, stall and leave as they like.
Fairness ==
    /\ SF_vars(AddObserver)
    /\ WF_vars(CheckMaxClients)
    /\ \A c \in Sessions :
           /\ WF_vars(SendWelcome(c))
           /\ SF_vars(ListenEnd(c))
           /\ SF_vars(BroadcastLock(c))
           /\ WF_vars(BroadcastNotify(c))
           /\ WF_vars(BroadcastUnlock(c))

\* The chat under fair scheduling, every client draining its connection.
SpecFair == Init /\ [][NextChat]_vars /\ Fairness

\* The chat under fair scheduling, with clients that may stop reading.
SpecStall == Init /\ [][NextStall]_vars /\ Fairness

\* ------------------------------------------------------------------ claims
Registered == Members(observers)

\* The positions of client c's log holding a Notify of sender s's n-th line
\* made by chat.broadcast.
Deliveries(c, s, n) ==
    {i \in 1..Len(log[c]) :
        log[c][i].via = "broadcast" /\ log[c][i].from = s /\ log[c][i].n = n}

\* Sender s's broadcast has made the last turn of its loop.
LoopOver(s) == pc[s] = "notify" /\ idx[s] > Len(observers)

\* The accept loop has decided on client c: admitted or turned away.
Decided(c) == conn[c] # "none" /\ acc.c # c

\* Client c was turned away by the accept loop.
Denied(c) == Decided(c) /\ conn[c] = "closed" /\ pc[c] = "none"

\* C1: whenever the accept loop is between two connections, the observers
\* list holds at most MaxClients clients.
C1_PopulationWithinMax == acc.pc = "accept" => Len(observers) <= MaxClients

\* C2: a client that was turned away because the server was full is not in
\* the observers list, so no broadcast is addressed to it.
C2_DeniedNotRegistered == \A c \in Sessions : Denied(c) => c \notin Registered

\* C3: a client registered while the observers list already held MaxClients
\* clients has its connection closed, gets no listen goroutine and is never
\* sent the welcome message.
C3_FullMeansTurnedAway ==
    \A c \in Sessions :
        (Decided(c) /\ fullAtAdd[c]) =>
            /\ conn[c] = "closed"
            /\ pc[c] = "none"
            /\ \A i \in 1..Len(log[c]) : log[c][i].via # "welcome"

\* C4: two different clients in the observers list never have the same id.
C4_DistinctIds ==
    \A a, b \in Registered : a # b => id[a] # id[b]

\* C5: when a broadcast of sender s has run its loop, every client that was in
\* the observers list when s took the lock, s included, has been notified
\* exactly once with the message, and no other client has been notified.
C5_BroadcastReachesRegistered ==
    \A s \in Sessions :
        LoopOver(s) =>
            /\ s \in snap[s]
            /\ \A c \in Sessions :
                   /\ Cardinality(Deliveries(c, s, nread[s])) = (IF c \in snap[s] THEN 1 ELSE 0)
                   /\ \A i \in Deliveries(c, s, nread[s]) : log[c][i].text = out[s]

C5_Witness ==
    \E s \in Sessions :
        /\ LoopOver(s)
        /\ Cardinality(snap[s]) >= 2
        /\ \A c \in snap[s] : Cardinality(Deliveries(c, s, nread[s])) = 1

\* C6: in the log of every recipient, the broadcasts of one sender appear in
\* the order in which the sender's lines were read.
C6_PerSenderOrder ==
    \A r \in Sessions :
        \A i, j \in 1..Len(log[r]) :
            (/\ i < j
             /\ log[r][i].via = "broadcast"
             /\ log[r][j].via = "broadcast"
             /\ log[r][i].from = log[r][j].from) => log[r][i].n < log[r][j].n

C6_Witness ==
    \E r, s \in Sessions :
        /\ r # s
        /\ r \in Registered
        /\ Deliveries(r, s, 1) # {}
        /\ Deliveries(r, s, 2) # {}

\* C7: the step that closes a client's connection leaves the client out of
\* the observers list, which is one shorter than before, and no write to a
\* client whose connection is closed succeeds afterwards.
C7_ClosedLeavesRegistry ==
    [][\A c \in Sessions :
           /\ (conn[c] = "open" /\ conn'[c] = "closed") =>
                  /\ c \notin Members(observers')
                  /\ Len(observers') = Len(observers) - 1
           /\ conn[c] = "closed" =>
                  \A i \in (1..Len(log'[c])) \ (1..Len(log[c])) : ~log'[c][i].ok]_vars

\* Some write of sender s's broadcast in progress has failed.
FailedWrite(s) ==
    \E c \in Sessions : \E i \in Deliveries(c, s, nread[s]) : ~log[c][i].ok

\* C8: once a write of a broadcast has failed, the broadcast goes on to the
\* end of its loop, where every client of the list has been notified; the
\* sender returns to its read loop; and nobody is taken out of the observers
\* list, then or later, except by the end of its own read loop.
C8_FailedWriteTolerated ==
    [][/\ \A s \in Sessions :
              (pc[s] = "notify" /\ FailedWrite(s)) =>
                  /\ pc'[s] \in {"notify", "read"}
                  /\ observers' = observers
                  /\ pc'[s] = "read" =>
                         \A c \in snap[s] : Deliveries(c, s, nread[s]) # {}
       /\ \A c \in Sessions :
              (c \in Members(observers) /\ c \notin Members(observers')) =>
                  pc[c] = "read" /\ pc'[c] = "done"]_vars

C8_Witness ==
    \E s, c \in Sessions :
        /\ LoopOver(s)
        /\ observers = <<c, s>>
        /\ \E i \in Deliveries(c, s, nread[s]) : ~log[c][i].ok
        /\ \E i \in Deliveries(s, s, nread[s]) : log[s][i].ok

\* The malformed commands and the notice each is answered with.
MalformedLines == {LineNickNoArg, LineUnknown}
ExpectedNotice(l) ==
    IF l = LineNickNoArg THEN "Usage: /nick <nickname>\n" ELSE "Unsupported command\n"

\* C9: handling a malformed command ("/nick" without argument, "/frob x")
\* writes one notice, to the sender alone, starts no broadcast, leaves every
\* nickname and the observers list as they were, and the sender keeps reading.
C9_MalformedCommand ==
    [][\A s \in Sessions :
           (nread'[s] = nread[s] + 1 /\ line'[s] \in MalformedLines) =>
               /\ \E ok \in BOOLEAN :
                      log'[s] = Append(log[s], [via |-> "direct",
                                                text |-> ExpectedNotice(line'[s]),
                                                from |-> s, n |-> nread'[s], ok |-> ok])
               /\ \A c \in Sessions \ {s} : log'[c] = log[c]
               /\ nick' = nick
               /\ observers' = observers
               /\ out' = out /\ mu' = mu
               /\ pc'[s] = "read"]_vars

C9_Witness ==
    \E s \in Sessions :
        /\ nick[s] = "X"
        /\ line[s] = LineNickNoArg
        /\ Len(observers) >= 2
        /\ log[s] # <<>>
        /\ log[s][Len(log[s])].text = "Usage: /nick <nickname>\n"

\* The decimal numerals of the ids of the model.
Numeral == <<"1", "2", "3", "4", "5", "6", "7", "8", "9">>

\* What the line " hi \r\n" of sender s is broadcast as.
ExpectedHi(s) ==
    IF nick[s] = "" THEN "user:" \o Numeral[id[s]] \o "> hi\n" ELSE nick[s] \o "> hi\n"

\* C10: the plain line "hi" of sender s is broadcast as "<nick>> hi\n" when s
\* has a nickname and as "user:<id>> hi\n" when it has none, and that is the
\* text every client of the list, s included, is notified with.
C10_PlainLineFormat ==
    \A s \in Sessions :
        (line[s] = LinePadded /\ pc[s] \in {"broadcast", "notify"}) =>
            /\ out[s] = ExpectedHi(s)
            /\ \A c \in Sessions :
                   \A i \in Deliveries(c, s, nread[s]) : log[c][i].text = ExpectedHi(s)
            /\ LoopOver(s) =>
                   \A c \in snap[s] \cup {s} : Deliveries(c, s, nread[s]) # {}

C10_Witness ==
    \E s \in Sessions :
        /\ line[s] = LinePadded
        /\ LoopOver(s)
        /\ nick[s] = "X"
        /\ Cardinality(snap[s]) >= 2
        /\ \A c \in snap[s] :
               \E i \in Deliveries(c, s, nread[s]) : log[c][i].text = "X> hi\n"

\* C11: from addObserver's append to the length check of the accept loop
\* nobody else is added to or removed from the observers list, and the length
\* is read at a moment when no other goroutine holds chat.mu.
C11_AdmissionAtomic ==
    [][acc.pc = "check" =>
           /\ observers' = observers
           /\ acc'.pc = "accept" => mu = 0]_vars

\* The position in client r's log of the Notify of sender s's n-th line made by
\* chat.broadcast (0 when there is none).
Pos(r, s, n) ==
    IF Deliveries(r, s, n) = {} THEN 0 ELSE CHOOSE i \in Deliveries(r, s, n) : TRUE

\* The entries a step appends to client c's log.
Appended(c) == (1..Len(log'[c])) \ (1..Len(log[c]))

\* Entry e of a log is the Notify of the same broadcast as entry f.
SameBroadcast(e, f) ==
    e.via = "broadcast" /\ f.via = "broadcast" /\ e.from = f.from /\ e.n = f.n

\* C12: when a broadcast is written to client c, every broadcast of another
\* sender written to c before it comes before it, too, in the log of every
\* client that got both, so that two broadcasts reach all their common
\* recipients in one order; and while a broadcast holds chat.mu the observers
\* list does not change and every Notify made by a broadcast is one of the
\* holder's.
C12_BroadcastsTotallyOrdered ==
    [][/\ mu # 0 => observers' = observers
       /\ \A c \in Sessions : \A j \in Appended(c) :
              log'[c][j].via = "broadcast" =>
                  /\ mu # 0
                  /\ log'[c][j].from = mu
                  /\ pc[mu] = "notify"
                  /\ \A i \in 1..(j - 1) :
                         (log'[c][i].via = "broadcast" /\ log'[c][i].from # log'[c][j].from) =>
                             \A r \in Sessions : \A k, l \in 1..Len(log'[r]) :
                                 (/\ SameBroadcast(log'[r][k], log'[c][i])
                                  /\ SameBroadcast(log'[r][l], log'[c][j])) => k < l]_vars

C12_Witness ==
    \E r1, r2 \in Sessions : \E s1, s2 \in Sessions :
        /\ r1 # r2 /\ s1 # s2
        /\ Pos(r1, s1, 1) # 0 /\ Pos(r1, s2, 1) # 0
        /\ Pos(r2, s1, 1) # 0 /\ Pos(r2, s2, 1) # 0

\* The listen goroutine of client c is running.
Listening(c) == pc[c] \in {"welcome", "read", "broadcast", "notify"}

\* C13: every client in the observers list has a connection the server has
\* not closed, and every client whose listen goroutine is running is in the
\* observers list.
C13_RegisteredMeansOpen ==
    \A c \in Sessions :
        /\ c \in Registered => conn[c] = "open"
        /\ Listening(c) => c \in Registered

\* The second half of C13 alone.
ListeningRegistered == \A c \in Sessions : Listening(c) => c \in Registered

\* C14: under fair scheduling, a client whose stream has ended while listen
\* waits in ReadString is eventually out of the observers list, its
\* connection closed and its goroutine over.
C14_EndedEventuallyRemoved ==
    \A c \in Sessions :
        (pc[c] = "read" /\ peer[c] = "closed")
            ~> (pc[c] = "done" /\ conn[c] = "closed" /\ c \notin Registered)

\* obs without c, the other clients in the order they had.
Without(obs, c) == SelectSeq(obs, LAMBDA x : x # c)

\* C15: removeObserver of a client of the list takes out that client and
\* nobody else, the others keeping their order; of a client that is not in
\* the list it changes nothing, so removing twice is removing once; and that
\* is what the end of a listen goroutine does to the list.
C15_RemoveExactlyOne ==
    /\ [](\A c \in Sessions :
             LET r == RemoveFirst(observers, c)
             IN  /\ r = Without(observers, c)
                 /\ c \in Registered => Len(r) = Len(observers) - 1
                 /\ c \notin Registered => r = observers
                 /\ RemoveFirst(r, c) = r)
    /\ [][\A c \in Sessions :
              (pc[c] = "read" /\ pc'[c] = "done") => observers' = Without(observers, c)]_vars

\* Client 3 was added to <<1, 2>>, and client 1 has left since.
C15_Witness ==
    /\ observers = <<2, 3>>
    /\ fullAtAdd[3]
    /\ pc[1] = "done"
    /\ pc[2] = "read"

\* The well-formed /nick lines, the name each asks for and the notice that
\* client s's change to that name is announced with.
RenameLines == {LineNickX, LineNickUpperY}
ExpectedName(l) == IF l = LineNickX THEN "X" ELSE "Y"
ExpectedRename(s, l) ==
    "User " \o Numeral[id[s]] \o " is now known as " \o ExpectedName(l) \o "\n"

\* C16: reading a well-formed /nick line of client s sets s's nickname to the
\* name asked for, whether s had one or not, starts the broadcast of
\* "User <id> is now known as <name>" and changes nothing else of the clients
\* or the observers list; the broadcast notifies every client of the list, s
\* included, once with that text; and a nickname that is set never becomes
\* empty again.
C16_RenameAnnounced ==
    /\ [](\A s \in Sessions :
             (line[s] \in RenameLines /\ pc[s] \in {"broadcast", "notify"}) =>
                 /\ nick[s] = ExpectedName(line[s])
                 /\ out[s] = ExpectedRename(s, line[s])
                 /\ LoopOver(s) =>
                        /\ s \in snap[s]
                        /\ \A c \in snap[s] :
                               /\ Cardinality(Deliveries(c, s, nread[s])) = 1
                               /\ \A i \in Deliveries(c, s, nread[s]) :
                                      log[c][i].text = ExpectedRename(s, line[s]))
    /\ [][/\ \A s \in Sessions :
                 (nread'[s] = nread[s] + 1 /\ line'[s] \in RenameLines) =>
                     /\ nick'[s] = ExpectedName(line'[s])
                     /\ pc'[s] = "broadcast"
                     /\ \A c \in Sessions \ {s} : nick'[c] = nick[c]
                     /\ id' = id /\ observers' = observers /\ conn' = conn
                     /\ log' = log /\ mu' = mu
          /\ \A c \in Sessions : nick[c] # "" => nick'[c] # ""]_vars

\* Client s, known as X, has changed its name to Y, and both announcements
\* have reached the two clients connected.
C16_Witness ==
    \E s \in Sessions :
        /\ line[s] = LineNickUpperY
        /\ nick[s] = "Y"
        /\ LoopOver(s)
        /\ Cardinality(snap[s]) = 2
        /\ \A c \in snap[s] :
               /\ \E i \in Deliveries(c, s, 1) :
                      log[c][i].text = "User " \o Numeral[id[s]] \o " is now known as X\n"
               /\ \E i \in Deliveries(c, s, 2) :
                      log[c][i].text = "User " \o Numeral[id[s]] \o " is now known as Y\n"

\* The /nick lines whose argument is not one word: none, empty, two words.
NotOneWord == {LineNickBare, LineNickNoArg, LineNickTwo}

\* Reading line l, client s is refused: it alone is written the usage text,
\* its nickname stays and no broadcast starts.
Refused(s) ==
    /\ \E ok \in BOOLEAN :
           log'[s] = Append(log[s], [via |-> "direct", text |-> "Usage: /nick <nickname>\n",
                                     from |-> s, n |-> nread'[s], ok |-> ok])
    /\ \A c \in Sessions \ {s} : log'[c] = log[c]
    /\ nick' = nick
    /\ out' = out /\ mu' = mu
    /\ pc'[s] = "read"

\* C17 as stated: after a /nick line whose argument is missing, empty or
\* made of more than one word, the sender's nickname is unchanged, the sender
\* alone is notified and nothing is broadcast.
C17_OneWordOnly ==
    [][\A s \in Sessions :
           (nread'[s] = nread[s] + 1 /\ line'[s] \in NotOneWord) => Refused(s)]_vars

\* C17 amended: the argument of /nick is the rest of the line after the first
\* space, trimmed.  When it is missing or empty the sender is refused; when
\* it is "a b" the sender's nickname becomes "a b" and the change is
\* broadcast; and a nickname changes on no other occasion.
C17_RestOfLineIsTheName ==
    [][\A s \in Sessions :
           /\ (nread'[s] = nread[s] + 1 /\ line'[s] \in {LineNickBare, LineNickNoArg}) =>
                  Refused(s)
           /\ (nread'[s] = nread[s] + 1 /\ line'[s] = LineNickTwo) =>
                  /\ nick'[s] = "a b"
                  /\ out'[s] = "User " \o Numeral[id[s]] \o " is now known as a b\n"
                  /\ pc'[s] = "broadcast"
                  /\ log' = log
           /\ nick'[s] # nick[s] =>
                  (nread'[s] = nread[s] + 1 /\ line'[s] = LineNickTwo)]_vars

\* Client s, known as "a b", has sent /nick without a name and has been
\* written the usage text; the other client has been told of the name "a b".
C17_Witness ==
    \E s, c \in Sessions :
        /\ s # c
        /\ nick[s] = "a b"
        /\ line[s] \in {LineNickBare, LineNickNoArg}
        /\ log[s][Len(log[s])].text = "Usage: /nick <nickname>\n"
        /\ \E i \in Deliveries(c, s, 1) :
               log[c][i].text = "User " \o Numeral[id[s]] \o " is now known as a b\n"

\* C18: under fair scheduling, a broadcast that has taken chat.mu eventually
\* ends its loop and releases it, also when a client has stopped reading; and
\* a connection the accept loop is about to add is eventually added.
C18_BroadcastEventuallyUnlocks ==
    /\ \A s \in Sessions : (pc[s] = "notify") ~> (pc[s] # "notify" /\ mu # s)
    /\ (acc.pc = "add") ~> (acc.pc # "add")

\* The clients whose listen goroutine is running.
Running == {c \in Sessions : Listening(c)}

\* C19: when the accept loop decides on a connection while fewer than
\* MaxClients listen goroutines are running, the connection is admitted: it
\* stays open and in the observers list and gets its listen goroutine.
C19_RoomMeansAdmitted ==
    [][(acc.pc = "check" /\ acc'.pc = "accept" /\ Cardinality(Running) < MaxClients) =>
           /\ pc'[acc.c] = "welcome"
           /\ conn'[acc.c] = "open"
           /\ acc.c \in Members(observers')]_vars

\* The positions of client c's log holding the welcome message.
Welcomes(c) == {i \in 1..Len(log[c]) : log[c][i].via = "welcome"}

\* C20: a client with a listen goroutine is written the welcome message once,
\* at the start of listen, and nothing is written to its connection with
\* success before the welcome message.
C20_WelcomeFirst ==
    \A c \in Sessions :
        Listening(c) =>
            /\ Cardinality(Welcomes(c)) = (IF pc[c] = "welcome" THEN 0 ELSE 1)
            /\ \A i \in 1..Len(log[c]) :
                   (log[c][i].via # "welcome" /\ log[c][i].ok) =>
                       \E j \in Welcomes(c) : j < i

\* The first half of C20 alone: the welcome message is written once.
WelcomeOnce ==
    \A c \in Sessions :
        Listening(c) => Cardinality(Welcomes(c)) = (IF pc[c] = "welcome" THEN 0 ELSE 1)

====
